---- MODULE Spec2Model ----
(***************************************************************************)
(* A model of chariot's App (app.go): New (collectComponents, the         *)
(* recursive initializeComponent / ins resolver, invokeInits and the      *)
(* deferred Shutdown on failure), Shutdown and Run.                        *)
(***************************************************************************)
EXTENDS Integers, Sequences, FiniteSets, TLC

\* ------------------------------------------------------------------ bounds

\* The number of declarations (initializers plus pre-built components) given to New.
MaxDecls == 3

\* The number of times the caller calls Shutdown on a ready app.
MaxShutdownCalls == 2

\* The number of times the caller calls Run on a ready app.
MaxRunCalls == 1

\* ------------------------------------------------------- kinds and values

\* The component types (reflect.Type keys) the initializers speak about.
Kinds == {"A", "B", "C"}

\* reflect.TypeOf((*context.Context)(nil)).Elem()
CtxKind == "ctx"

\* reflect.TypeOf((*error)(nil)).Elem()
ErrorType == "error"

\* The zero reflect.Value: component.value before the constructor has run.
Invalid == <<"invalid">>

\* A nil error.
Nil == <<"nil">>

\* The value of a.ctx as a component.
RootCtx == <<CtxKind, "root">>

\* The value of the context setCtxComponent derives from the one given with
\* WithInitContext, as a component.
InitCtx == <<CtxKind, "init">>

\* No Retrieve call has been made yet.
NoLookup == [kind |-> "none", found |-> FALSE, value |-> Invalid]

\* The value initializer number idx returns for its output of type kind.
ValueOf(kind, idx) == <<kind, idx>>

\* The error initializer number idx returns when it fails.
ErrorOf(idx) == <<"error", idx>>

\* The types with a Run method: A and B, which have a Shutdown method too, and R,
\* which has none; C is a plain struct.
RunnerKinds == {"A", "B", "R"}

\* Whether a value conforms to Runner.
IsRunner(v) == v[1] \in RunnerKinds

\* Whether a value conforms to Shutdowner: A and B have a Shutdown method.
IsShutdowner(v) == v[1] \in {"A", "B"}

\* reflect.Value.IsValid of a component's value.
IsValid(v) == v # Invalid

\* ------------------------------------------------------------ initializers

\* An initializer: a func with parameter types ins (the last one variadic when
\* variadic), component outputs outs, and a trailing error output unless ret is
\* "none"; when called it returns a nil error (ret "nil") or fails (ret "err").
Fn(ins, variadic, outs, ret) ==
    [ins |-> ins, variadic |-> variadic, outs |-> outs, ret |-> ret]

\* The initializers the caller chooses from.
Catalogue ==
    { Fn(<<>>, FALSE, <<"A">>, "none"),           \* func() A
      Fn(<<"B", "B">>, FALSE, <<"A">>, "none"),   \* func(B, B) A
      Fn(<<"C">>, FALSE, <<"B">>, "nil"),         \* func(C) (B, error): nil
      Fn(<<"A">>, FALSE, <<"C">>, "none"),        \* func(A) C
      Fn(<<"B", "C">>, FALSE, <<"A">>, "none"),   \* func(B, C) A
      Fn(<<>>, FALSE, <<"B", "C">>, "none"),      \* func() (B, C)
      Fn(<<>>, FALSE, <<"C">>, "err"),            \* func() (C, error): fails
      Fn(<<CtxKind, "D">>, TRUE, <<"B">>, "none"),\* func(context.Context, ...D) B
      Fn(<<"C">>, FALSE, <<"C">>, "nil"),         \* func(C) (C, error)
      Fn(<<"A">>, FALSE, <<>>, "none"),           \* func(A)
      Fn(<<"B">>, FALSE, <<>>, "err"),            \* func(B) error: fails
      Fn(<<>>, FALSE, <<>>, "nil") }              \* func() error: nil

\* The initializers the caller chooses from when it goes on to call Run.
RunCatalogue ==
    { Fn(<<>>, FALSE, <<"A", "C">>, "none"),      \* func() (A, C)
      Fn(<<"A">>, FALSE, <<"R">>, "none"),        \* func(A) R
      Fn(<<>>, FALSE, <<"B", "R">>, "none") }     \* func() (B, R)

\* The initializers the caller chooses from when it goes on to call Retrieve.
LookupCatalogue ==
    { Fn(<<>>, FALSE, <<"A">>, "none"),           \* func() A
      Fn(<<"A">>, FALSE, <<"C">>, "none"),        \* func(A) C
      Fn(<<CtxKind, "C">>, TRUE, <<"B">>, "none"),\* func(context.Context, ...C) B
      Fn(<<CtxKind>>, FALSE, <<>>, "none") }      \* func(context.Context)

\* The initializers the caller chooses from when constructors of Shutdowners fail.
FailingCatalogue ==
    { Fn(<<>>, FALSE, <<"A">>, "none"),           \* func() A
      Fn(<<"A">>, FALSE, <<"B">>, "err"),         \* func(A) (B, error): fails
      Fn(<<>>, FALSE, <<"B", "C">>, "err"),       \* func() (B, C, error): fails
      Fn(<<"B">>, FALSE, <<"C">>, "none") }       \* func(B) C

\* What a Run method does: "ok" returns nil and "fail" returns an error, when they
\* like; "wait" returns nil and "waitfail" returns an error, once ctx is done.
Behaviours == {"ok", "fail", "wait", "waitfail"}

\* The error the Run method of a runner returns when it fails.
RunError(runner) == <<"run error", runner>>

\* errors.Join: nil when there is no error to join.
Join(errs) == IF errs = <<>> THEN Nil ELSE <<"join", errs>>

\* Sequences over S of length at most n.
SeqsUpTo(S, n) == UNION {[1..m -> S] : m \in 0..n}

VARIABLES
    initializers,   \* options.initializers given to New (With)
    prebuilt,       \* options.components given to New (WithComponents)
    loopVarShared,  \* whether the build gives the range of
                    \* mergeComponentsInitializers one variable for all its
                    \* iterations (Go before 1.22) or one per iteration
    initCtx,        \* whether options.ctx is given to New (WithInitContext)
    optCtxDone,     \* whether the context given with WithInitContext is done
    initCtxDone,    \* whether the context setCtxComponent derived from it is done
    merged,         \* the list mergeComponentsInitializers returned
    pc,             \* where New / the app is
    components,     \* a.components: kind -> [dependencies, constructor, value]
    inits,          \* the initFuncs collectComponents returned
    runners,        \* a.runners
    shutdowners,    \* a.shutdowners
    visited,        \* the keys the range over a.components has yielded
    cycle,          \* the cycle map of initializeComponents, as the last statement
                    \* that touched it left it
    stack,          \* the active initializeComponent/ins frames; none once an
                    \* error has been returned up to New
    initIdx,        \* the position of invokeInits' loop
    err,            \* the error New returns
    rootCancelled,  \* whether a.ctx is done
    sd,             \* the Shutdown call in progress
    shutdownCalls,  \* the number of Shutdown calls the caller has made
    calls,          \* how many times each initializer has been called
    log,            \* the calls made to initializers and shutdowners, in order
    behaviour,      \* what the Run method of the component of each kind does
    runCalls,       \* the number of Run calls the caller has made
    runPc,          \* where the Run call is
    runOpts,        \* the options of the Run call
    runCtxDone,     \* whether the context Run passes to the runners is done
    altDone,        \* whether the context given with WithRunContext is done
    task,           \* the goroutines Run started, one per runner
    runErrors,      \* the channel runErrors
    closed,         \* whether runErrors is closed
    firstErr,       \* err of Run: the first error received
    subsequentErrors, \* subsequentErrors of Run
    runResult,      \* the error Run returned
    reported,       \* the errors the goroutines have sent, in the order sent
    handled,        \* the errors the handler of WithErrHandler was called with
    retrieved       \* what the last Retrieve call was asked and what it returned

cfgVars == <<initializers, prebuilt, loopVarShared, initCtx, behaviour>>
ictxVars == <<optCtxDone, initCtxDone>>
runVars == <<runCalls, runPc, runOpts, runCtxDone, altDone, task, runErrors, closed,
             firstErr, subsequentErrors, runResult, reported, handled>>
newVars == <<merged, pc, components, inits, runners, shutdowners, visited, cycle,
             stack, initIdx, err, calls>>
sdVars == <<sd, shutdownCalls>>
vars == <<cfgVars, ictxVars, newVars, sdVars, runVars, rootCancelled, log, retrieved>>

\* ------------------------------------------------ reflection on initializers

\* The dependencies collectComponents records: the parameters but a variadic one.
Dependencies(f) ==
    LET num == IF f.variadic THEN Len(f.ins) - 1 ELSE Len(f.ins)
    IN  SubSeq(f.ins, 1, num)

\* initializerType.Out(0..NumOut-1)
OutTypes(f) == IF f.ret = "none" THEN f.outs ELSE Append(f.outs, ErrorType)

\* The number of components an initializer yields: its outputs but a last error.
NumComponents(f) ==
    LET num == Len(OutTypes(f))
        last == num - 1
    IN  IF last >= 0 /\ OutTypes(f)[last + 1] = ErrorType
        THEN last
        ELSE num

\* reflect.ValueOf(component) in the func mergeComponentsInitializers made for the
\* pre-built component number j, evaluated when that func is called, after the
\* loop: the component of its own iteration when every iteration has its own
\* variable, the last component of the list when the loop has one variable.
capturedComponent(j) ==
    IF loopVarShared
    THEN ValueOf(prebuilt[Len(prebuilt)], Len(initializers) + Len(prebuilt))
    ELSE ValueOf(prebuilt[j], Len(initializers) + j)

\* reflect.Value.Call: what initializer number idx returns. Only its last output
\* is its error, when that is of the error type; every output before it, of
\* whatever type, is a component. The initializers past those given with With are
\* the funcs made for the pre-built components.
Call(idx, f) ==
    [j \in 1..Len(OutTypes(f)) |->
        IF j > NumComponents(f)
        THEN (IF f.ret = "err" THEN ErrorOf(idx) ELSE Nil)
        ELSE IF idx > Len(initializers)
             THEN capturedComponent(idx - Len(initializers))
             ELSE ValueOf(OutTypes(f)[j], idx)]

\* Whether the func reflect.MakeFunc made for a pre-built component returns a
\* value of another type than the one it was declared with: reflect panics
\* ("returned wrong type"). The funcs given with With are compiled and cannot.
WrongType(idx, f) ==
    /\ idx > Len(initializers)
    /\ \E j \in 1..NumComponents(f) : Call(idx, f)[j][1] # OutTypes(f)[j]

\* The constructors made of the pre-built components, appended to the initializers.
mergeComponentsInitializers(comps, fs) ==
    fs \o [j \in 1..Len(comps) |-> Fn(<<>>, FALSE, <<comps[j]>>, "none")]

\* The registry with only the context component, as setCtxComponent leaves it:
\* a context derived from options.ctx when that is given, else a.ctx.
setCtxComponent(ctx) ==
    (CtxKind :> [dependencies |-> <<>>, constructor |-> 0,
                 value |-> IF ctx THEN InitCtx ELSE RootCtx])

\* The inner loop of collectComponents, mutated to register an output without
\* looking for a component of its type: the later producer replaces the earlier.
RECURSIVE collectOutsOverwrites(_, _, _, _)
collectOutsOverwrites(comps, idx, f, i) ==
    IF i > NumComponents(f)
    THEN [components |-> comps, err |-> Nil]
    ELSE LET componentType == OutTypes(f)[i] IN
         collectOutsOverwrites(
            (componentType :>
                [dependencies |-> Dependencies(f), constructor |-> idx,
                 value |-> Invalid]) @@ comps,
            idx, f, i + 1)

\* The inner loop of collectComponents, mutated to skip an output whose type has
\* a component already instead of returning an error.
RECURSIVE collectOutsKeepsFirst(_, _, _, _)
collectOutsKeepsFirst(comps, idx, f, i) ==
    IF i > NumComponents(f)
    THEN [components |-> comps, err |-> Nil]
    ELSE LET componentType == OutTypes(f)[i] IN
         collectOutsKeepsFirst(
            comps @@ (componentType :>
                [dependencies |-> Dependencies(f), constructor |-> idx,
                 value |-> Invalid]),
            idx, f, i + 1)

\* The inner loop of collectComponents over the outputs of initializer idx.
RECURSIVE collectOuts(_, _, _, _)
collectOuts(comps, idx, f, i) ==
    IF i > NumComponents(f)
    THEN [components |-> comps, err |-> Nil]
    ELSE LET componentType == OutTypes(f)[i] IN
         IF componentType \in DOMAIN comps
         THEN [components |-> comps,
               err |-> <<"duplicating component", componentType>>]
         ELSE collectOuts(
                comps @@ (componentType :>
                    [dependencies |-> Dependencies(f), constructor |-> idx,
                     value |-> Invalid]),
                idx, f, i + 1)

\* inits = append(inits, initFunc{...}), mutated to put the init in front.
prependInit(is, init) == <<init>> \o is

\* inits = append(inits, initFunc{...})
appendInit(is, init) == Append(is, init)

\* collectComponents from initializer number j on.
RECURSIVE collectComponents(_, _, _, _)
collectComponents(comps, is, fs, j) ==
    IF j > Len(fs)
    THEN [components |-> comps, inits |-> is, err |-> Nil]
    ELSE IF NumComponents(fs[j]) = 0
    THEN collectComponents(
            comps,
            appendInit(is, [dependencies |-> Dependencies(fs[j]), init |-> j]),
            fs, j + 1)
    ELSE LET r == collectOuts(comps, j, fs[j], 1) IN
         IF r.err # Nil
         THEN [components |-> r.components, inits |-> <<>>, err |-> r.err]
         ELSE collectComponents(r.components, is, fs, j + 1)

\* ------------------------------------------------------------------- Init

\* The state before New is called.
Fresh ==
    /\ merged = <<>>
    /\ pc = "start"
    /\ components = << >>
    /\ inits = <<>>
    /\ runners = <<>>
    /\ shutdowners = <<>>
    /\ visited = {}
    /\ cycle = {}
    /\ stack = <<>>
    /\ initIdx = 1
    /\ err = Nil
    /\ rootCancelled = FALSE
    /\ optCtxDone = FALSE
    /\ initCtxDone = FALSE
    /\ sd = [on |-> FALSE, i |-> 0, busy |-> FALSE]
    /\ shutdownCalls = 0
    /\ calls = <<>>
    /\ log = <<>>
    /\ runCalls = 0
    /\ runPc = "idle"
    /\ runOpts = [parent |-> "root", handler |-> FALSE]
    /\ runCtxDone = FALSE
    /\ altDone = FALSE
    /\ task = <<>>
    /\ runErrors = <<>>
    /\ closed = FALSE
    /\ firstErr = Nil
    /\ subsequentErrors = <<>>
    /\ runResult = Nil
    /\ reported = <<>>
    /\ handled = <<>>
    /\ retrieved = NoLookup

\* The builds that differ on a list of pre-built components: the Go language
\* version of the module decides whether the loop variable is shared, and it is
\* not part of the sources. With fewer than two components the last one is the
\* only one, both builds do the same, and one of them stands for both.
Builds(comps) == IF Len(comps) >= 2 THEN BOOLEAN ELSE {FALSE}

\* New is given any declarations; the caller will not call Run.
Init ==
    /\ \E n \in 0..MaxDecls :
         /\ initializers \in [1..n -> Catalogue]
         /\ prebuilt \in SeqsUpTo(Kinds, MaxDecls - n)
    /\ loopVarShared \in Builds(prebuilt)
    /\ initCtx = FALSE
    /\ behaviour = [k \in RunnerKinds |-> "ok"]
    /\ Fresh

\* New is given constructors some of which fail after they have made their values.
InitFailing ==
    /\ initializers \in SeqsUpTo(FailingCatalogue, MaxDecls)
    /\ prebuilt = <<>>
    /\ loopVarShared \in Builds(prebuilt)
    /\ initCtx = FALSE
    /\ behaviour = [k \in RunnerKinds |-> "ok"]
    /\ Fresh

\* New is given constructors of runners, whose Run methods behave in any way.
InitRun ==
    /\ initializers \in SeqsUpTo(RunCatalogue, MaxDecls)
    /\ prebuilt = <<>>
    /\ loopVarShared \in Builds(prebuilt)
    /\ initCtx = FALSE
    /\ behaviour \in [RunnerKinds -> Behaviours]
    /\ \A k \in RunnerKinds :
         (\A j \in 1..Len(initializers) : k \notin {initializers[j].outs[o] :
                                            o \in 1..Len(initializers[j].outs)})
            => behaviour[k] = "ok"
    /\ Fresh

\* New is given any declarations from the small catalogue, with or without
\* WithInitContext; the caller goes on to call Retrieve.
InitLookup ==
    /\ \E n \in 0..MaxDecls :
         /\ initializers \in [1..n -> LookupCatalogue]
         /\ prebuilt \in SeqsUpTo(Kinds, MaxDecls - n)
    /\ loopVarShared \in Builds(prebuilt)
    /\ initCtx \in BOOLEAN
    /\ behaviour = [k \in RunnerKinds |-> "ok"]
    /\ Fresh

\* New is given constructors of runners, whose Run methods fail of their own
\* accord or wait for ctx.
InitRunLinked ==
    /\ initializers \in SeqsUpTo(RunCatalogue, MaxDecls)
    /\ prebuilt = <<>>
    /\ loopVarShared \in Builds(prebuilt)
    /\ initCtx = FALSE
    /\ behaviour \in [RunnerKinds -> {"wait", "fail"}]
    /\ \A k \in RunnerKinds :
         (\A j \in 1..Len(initializers) : k \notin {initializers[j].outs[o] :
                                            o \in 1..Len(initializers[j].outs)})
            => behaviour[k] = "wait"
    /\ Fresh

\* ----------------------------------------------------------------- New

\* The frame on top of the stack: the initializeComponent call that is running.
Top == stack[Len(stack)]

\* New without its deferred resetCtxComponent: the mutation of resetCtxComponent.
keepCtxComponent(comps) == comps

\* resetCtxComponent: the context component is a.ctx again.
resetCtxComponent(comps) ==
    [k \in DOMAIN comps |->
        IF k = CtxKind
        THEN [dependencies |-> <<>>, constructor |-> 0, value |-> RootCtx]
        ELSE comps[k]]

\* The loop of Shutdown, mutated to be skipped once a.ctx is cancelled.
lastShutdownerOnce(list) == IF rootCancelled THEN 0 ELSE Len(list)

\* Where the loop of Shutdown starts: i := len(a.shutdowners) - 1, counted from 1.
lastShutdowner(list) == Len(list)

\* New returns with an error, mutated to return without calling app.Shutdown.
FailWithoutShutdown(e) ==
    /\ err' = e
    /\ pc' = "failed"
    /\ stack' = <<>>
    /\ sd' = sd

\* New returns with an error: its deferred func calls app.Shutdown first.
Fail(e) ==
    /\ err' = e
    /\ pc' = "failing"
    /\ stack' = <<>>
    /\ sd' = [on |-> TRUE, i |-> lastShutdowner(shutdowners), busy |-> FALSE]

\* Whether the context setCtxComponent puts in the registry is done when it is
\* made: context.WithCancel(ctx) of a ctx that is done is done. That a.ctx is
\* done reaches it through the goroutine, InitWatcher.
derivedDone(parentDone) == initCtx /\ parentDone

\* The deferred cancel of New, mutated to be left out.
cancelCtxComponentForgotten(done) == done

\* The context of setCtxComponent after the cancel it returned has been called:
\* done when it was derived from options.ctx, untouched (func() {}) otherwise.
cancelCtxComponent(done) == IF initCtx THEN TRUE ELSE done

\* New up to the return of collectComponents.
NewCollect ==
    /\ pc = "start"
    /\ merged' = mergeComponentsInitializers(prebuilt, initializers)
    /\ calls' = [j \in 1..Len(merged') |-> 0]
    /\ LET r == collectComponents(setCtxComponent(initCtx), <<>>, merged', 1) IN
         /\ components' = r.components
         /\ inits' = r.inits
         /\ IF r.err # Nil
            THEN Fail(r.err)
            ELSE pc' = "resolve" /\ UNCHANGED <<err, stack, sd>>
    /\ log' = IF err' # Nil THEN Append(log, <<"Shutdown">>) ELSE log
    /\ initCtxDone' = derivedDone(optCtxDone)
    /\ UNCHANGED <<cfgVars, optCtxDone, retrieved, runVars, runners, shutdowners, visited,
                   cycle, initIdx, shutdownCalls, rootCancelled>>

\* delete(cycle, componentType), mutated to leave the type in the map.
stayOnPath(path, componentType) == path

\* delete(cycle, componentType): the component's initialization has returned.
leavePath(path, componentType) == path \ {componentType}

\* The range over a.components yields a component that holds a value already.
IterResolved ==
    /\ pc = "resolve" /\ stack = <<>>
    /\ \E componentType \in DOMAIN components \ visited :
         /\ IsValid(components[componentType].value)
         /\ visited' = visited \cup {componentType}
         /\ cycle' = leavePath(cycle \cup {componentType}, componentType)
    /\ UNCHANGED <<cfgVars, ictxVars, retrieved, runVars, merged, pc, components, inits, runners, shutdowners,
                   stack, initIdx, err, calls, sdVars, rootCancelled, log>>

\* The range over a.components yields a component still to be initialized.
IterEnter ==
    /\ pc = "resolve" /\ stack = <<>>
    /\ \E componentType \in DOMAIN components \ visited :
         /\ ~IsValid(components[componentType].value)
         /\ cycle' = cycle \cup {componentType}
         /\ stack' = <<[component |-> componentType, i |-> 1, ins |-> <<>>]>>
    /\ UNCHANGED <<cfgVars, ictxVars, retrieved, runVars, merged, pc, components, inits, runners, shutdowners,
                   visited, initIdx, err, calls, sdVars, rootCancelled, log>>

\* ins = append(ins, dependency.value), mutated to put the value in front.
prependValue(ins, v) == <<v>> \o ins

\* ins = append(ins, dependency.value)
appendValue(ins, v) == Append(ins, v)

\* The dependency the loop of ins is at.
NextDependency == components[Top.component].dependencies[Top.i]

\* The error of a dependency without a component, mutated to be the error of a
\* dependency cycle.
missingDependencyAsCycle(dependencyType) == <<"dependency cycle detected">>

\* The error of a dependency without a component, mutated not to name it.
missingDependencyUnnamed(dependencyType) == <<"missing dependency", Invalid>>

\* fmt.Errorf("missing dependency '%s'", dependencyType)
missingDependency(dependencyType) == <<"missing dependency", dependencyType>>

\* The lookup in the cycle map, mutated to find only the component that asks.
OnPathSelfOnly(dependencyType) == dependencyType = Top.component

\* _, ok := cycle[dependencyType]: the dependency is being initialized up the stack.
OnPath(dependencyType) == dependencyType \in cycle

InsLoop ==
    /\ pc = "resolve" /\ stack # <<>>
    /\ Top.i <= Len(components[Top.component].dependencies)

\* ins: the dependency has no component.
InsMissing ==
    /\ InsLoop
    /\ NextDependency \notin DOMAIN components
    /\ Fail(missingDependency(NextDependency))
    /\ log' = Append(log, <<"Shutdown">>)
    /\ UNCHANGED <<cfgVars, ictxVars, retrieved, runVars, merged, components, inits, runners, shutdowners,
                   visited, cycle, initIdx, calls, shutdownCalls, rootCancelled>>

\* ins: the dependency is in the cycle map.
InsCycle ==
    /\ InsLoop
    /\ NextDependency \in DOMAIN components
    /\ OnPath(NextDependency)
    /\ Fail(<<"dependency cycle detected">>)
    /\ log' = Append(log, <<"Shutdown">>)
    /\ UNCHANGED <<cfgVars, ictxVars, retrieved, runVars, merged, components, inits, runners, shutdowners,
                   visited, cycle, initIdx, calls, shutdownCalls, rootCancelled>>

\* ins: the dependency holds a value, initializeComponent returns at once.
InsResolved ==
    /\ InsLoop
    /\ NextDependency \in DOMAIN components
    /\ ~OnPath(NextDependency)
    /\ IsValid(components[NextDependency].value)
    /\ cycle' = leavePath(cycle \cup {NextDependency}, NextDependency)
    /\ stack' = [stack EXCEPT ![Len(stack)] =
                    [@ EXCEPT !.i = @ + 1,
                              !.ins = appendValue(@, components[NextDependency].value)]]
    /\ UNCHANGED <<cfgVars, ictxVars, retrieved, runVars, merged, pc, components, inits, runners, shutdowners,
                   visited, initIdx, err, calls, sdVars, rootCancelled, log>>

\* ins: the dependency is to be initialized, initializeComponent is entered.
InsEnter ==
    /\ InsLoop
    /\ NextDependency \in DOMAIN components
    /\ ~OnPath(NextDependency)
    /\ ~IsValid(components[NextDependency].value)
    /\ cycle' = cycle \cup {NextDependency}
    /\ stack' = Append(stack, [component |-> NextDependency, i |-> 1, ins |-> <<>>])
    /\ UNCHANGED <<cfgVars, ictxVars, retrieved, runVars, merged, pc, components, inits, runners, shutdowners,
                   visited, initIdx, err, calls, sdVars, rootCancelled, log>>

\* a.runners after initializeComponent has looked at out.
collectRunner(list, out) == IF IsRunner(out) THEN Append(list, out) ELSE list

\* a.shutdowners after initializeComponent has looked at out, mutated to put a
\* Shutdowner in front.
collectShutdownerInFront(list, out) ==
    IF IsShutdowner(out) THEN <<out>> \o list ELSE list

\* a.shutdowners after initializeComponent has looked at out.
collectShutdowner(list, out) ==
    IF IsShutdowner(out) THEN Append(list, out) ELSE list

\* The loop over outs, mutated to stop after the first value.
storeOutsFirstOnly(app, outs, j) ==
    IF j > Len(outs) \/ j > 1
    THEN app
    ELSE [components |-> [app.components EXCEPT ![outs[j][1]].value = outs[j]],
          runners |-> collectRunner(app.runners, outs[j]),
          shutdowners |-> collectShutdowner(app.shutdowners, outs[j])]

\* The loop of initializeComponent over outs, from position j on: each value is
\* stored in its component and collected as a Runner and as a Shutdowner.
RECURSIVE storeOuts(_, _, _)
storeOuts(app, outs, j) ==
    IF j > Len(outs)
    THEN app
    ELSE LET out == outs[j] IN
         storeOuts(
            [components |-> [app.components EXCEPT ![out[1]].value = out],
             runners |-> collectRunner(app.runners, out),
             shutdowners |-> collectShutdowner(app.shutdowners, out)],
            outs, j + 1)

\* The outs of a call without the last one when that is an error.
ComponentOuts(outs) ==
    IF outs[Len(outs)] = Nil \/ outs[Len(outs)][1] = "error"
    THEN SubSeq(outs, 1, Len(outs) - 1)
    ELSE outs

\* The check of the last out, mutated to take every error for nil.
LastIsErrorNever(outs) == FALSE

\* Whether the last out of a call is a non-nil error.
LastIsError(outs) == outs[Len(outs)] # Nil /\ outs[Len(outs)][1] = "error"

\* ins has returned the values of all dependencies: the constructor is called.
InsDone ==
    /\ pc = "resolve" /\ stack # <<>>
    /\ Top.i > Len(components[Top.component].dependencies)

\* The index in merged of the constructor initializeComponent calls.
TopConstructor == components[Top.component].constructor

\* initializeComponent, mutated to store the outs before it looks at the error.
storeThenReturn(app, outs) == storeOuts(app, ComponentOuts(outs), 1)

\* What a call that returns a non-nil error leaves of the app: initializeComponent
\* returns the error before its loop over outs.
returnBeforeStore(app, outs) == app

\* initializeComponent: the func made for a pre-built component returns a value
\* of another type and reflect panics. The panic leaves New through its deferred
\* funcs: err is nil, so Shutdown is not called; resetCtxComponent and the cancel
\* of setCtxComponent run; New returns nothing.
ConstructPanics ==
    /\ InsDone
    /\ WrongType(TopConstructor, merged[TopConstructor])
    /\ calls' = [calls EXCEPT ![TopConstructor] = @ + 1]
    /\ log' = Append(log, <<"panic", TopConstructor, Top.ins>>)
    /\ pc' = "panicked"
    /\ stack' = <<>>
    /\ components' = resetCtxComponent(components)
    /\ initCtxDone' = cancelCtxComponent(initCtxDone)
    /\ UNCHANGED <<cfgVars, optCtxDone, retrieved, runVars, merged, inits, runners,
                   shutdowners, visited, cycle, initIdx, err, sdVars, rootCancelled>>

\* initializeComponent: the constructor returns a non-nil error.
ConstructFails ==
    /\ InsDone
    /\ ~WrongType(TopConstructor, merged[TopConstructor])
    /\ LastIsError(Call(TopConstructor, merged[TopConstructor]))
    /\ calls' = [calls EXCEPT ![TopConstructor] = @ + 1]
    /\ Fail(Call(TopConstructor, merged[TopConstructor])[
                Len(Call(TopConstructor, merged[TopConstructor]))])
    /\ log' = log \o <<(<<"call", TopConstructor, Top.ins>>), (<<"Shutdown">>)>>
    /\ LET app == returnBeforeStore(
                    [components |-> components, runners |-> runners,
                     shutdowners |-> shutdowners],
                    Call(TopConstructor, merged[TopConstructor]))
       IN  /\ components' = app.components
           /\ runners' = app.runners
           /\ shutdowners' = app.shutdowners
    /\ UNCHANGED <<cfgVars, ictxVars, retrieved, runVars, merged, inits,
                   visited, cycle, initIdx, shutdownCalls, rootCancelled>>

\* initializeComponent: the constructor returns its components, which are stored;
\* the caller (ins, or the range of initializeComponents) goes on.
ConstructReturns ==
    /\ InsDone
    /\ ~WrongType(TopConstructor, merged[TopConstructor])
    /\ ~LastIsError(Call(TopConstructor, merged[TopConstructor]))
    /\ calls' = [calls EXCEPT ![TopConstructor] = @ + 1]
    /\ log' = Append(log, <<"call", TopConstructor, Top.ins>>)
    /\ LET app == storeOuts(
                    [components |-> components, runners |-> runners,
                     shutdowners |-> shutdowners],
                    ComponentOuts(Call(TopConstructor, merged[TopConstructor])), 1)
       IN  /\ components' = app.components
           /\ runners' = app.runners
           /\ shutdowners' = app.shutdowners
    /\ cycle' = leavePath(cycle, Top.component)
    /\ IF Len(stack) > 1
       THEN /\ stack' = [SubSeq(stack, 1, Len(stack) - 1) EXCEPT ![Len(stack) - 1] =
                            [@ EXCEPT !.i = @ + 1,
                                      !.ins = appendValue(@, components'[Top.component].value)]]
            /\ UNCHANGED visited
       ELSE /\ stack' = <<>>
            /\ visited' = visited \cup {Top.component}
    /\ UNCHANGED <<cfgVars, ictxVars, retrieved, runVars, merged, pc, inits, initIdx, err, sdVars, rootCancelled>>

\* Whether the range over a.components has yielded every key of the map.
rangeOver(seen) == seen = DOMAIN components

\* initializeComponents: the range over a.components is over.
ResolveDone ==
    /\ pc = "resolve" /\ stack = <<>>
    /\ rangeOver(visited)
    /\ pc' = "inits"
    /\ UNCHANGED <<cfgVars, ictxVars, retrieved, runVars, merged, components, inits, runners, shutdowners, visited,
                   cycle, stack, initIdx, err, calls, sdVars, rootCancelled, log>>

\* The init invokeInits is at.
ThisInit == inits[initIdx]

\* The positions of the dependencies of an init that have no component.
MissingAt(deps) == {j \in 1..Len(deps) : deps[j] \notin DOMAIN components}

\* The least element of a non-empty set of numbers.
Min(S) == CHOOSE x \in S : \A y \in S : x <= y

\* The values invokeInits passes to an init.
InitIns(deps) == [j \in 1..Len(deps) |-> components[deps[j]].value]

InitsLoop == pc = "inits" /\ initIdx <= Len(inits)

\* The error of an init's call, mutated to be dropped.
InitErrorIgnored(outs) == Nil

\* The error of an init's call: none when it returns nothing, else its first out.
InitError(outs) == IF Len(outs) = 0 THEN Nil ELSE outs[1]

\* invokeInits: a dependency of the init has no component.
InitMissing ==
    /\ InitsLoop
    /\ MissingAt(ThisInit.dependencies) # {}
    /\ Fail(missingDependency(
                ThisInit.dependencies[Min(MissingAt(ThisInit.dependencies))]))
    /\ log' = Append(log, <<"Shutdown">>)
    /\ UNCHANGED <<cfgVars, ictxVars, retrieved, runVars, merged, components, inits, runners, shutdowners,
                   visited, cycle, initIdx, calls, shutdownCalls, rootCancelled>>

\* invokeInits: the init is called and returns a non-nil error.
InitFails ==
    /\ InitsLoop
    /\ MissingAt(ThisInit.dependencies) = {}
    /\ InitError(Call(ThisInit.init, merged[ThisInit.init])) # Nil
    /\ calls' = [calls EXCEPT ![ThisInit.init] = @ + 1]
    /\ Fail(InitError(Call(ThisInit.init, merged[ThisInit.init])))
    /\ log' = log \o <<(<<"call", ThisInit.init, InitIns(ThisInit.dependencies)>>),
                        (<<"Shutdown">>)>>
    /\ UNCHANGED <<cfgVars, ictxVars, retrieved, runVars, merged, components, inits, runners, shutdowners,
                   visited, cycle, initIdx, shutdownCalls, rootCancelled>>

\* invokeInits: the init is called and returns nothing or a nil error.
InitReturns ==
    /\ InitsLoop
    /\ MissingAt(ThisInit.dependencies) = {}
    /\ InitError(Call(ThisInit.init, merged[ThisInit.init])) = Nil
    /\ calls' = [calls EXCEPT ![ThisInit.init] = @ + 1]
    /\ log' = Append(log, <<"call", ThisInit.init, InitIns(ThisInit.dependencies)>>)
    /\ initIdx' = initIdx + 1
    /\ UNCHANGED <<cfgVars, ictxVars, retrieved, runVars, merged, pc, components, inits, runners, shutdowners,
                   visited, cycle, stack, err, sdVars, rootCancelled>>

\* New returns the app: the deferred resetCtxComponent has run.
NewReturns ==
    /\ pc = "inits" /\ initIdx > Len(inits)
    /\ pc' = "ready"
    /\ components' = resetCtxComponent(components)
    /\ initCtxDone' = cancelCtxComponent(initCtxDone)
    /\ UNCHANGED <<cfgVars, optCtxDone, retrieved, runVars, merged, inits, runners,
                   shutdowners, visited, cycle, stack, initIdx, err, calls, sdVars,
                   rootCancelled, log>>

\* The caller's context given with WithInitContext is cancelled (a timed
\* initialization runs out) while New is running: the context derived from it, if
\* made already, is done with it.
CancelInitContext ==
    /\ initCtx /\ ~optCtxDone
    /\ pc \in {"start", "resolve", "inits", "failing"}
    /\ optCtxDone' = TRUE
    /\ initCtxDone' = (pc # "start" \/ initCtxDone)
    /\ UNCHANGED <<cfgVars, retrieved, newVars, sdVars, runVars, rootCancelled, log>>

\* The goroutine of setCtxComponent: a.ctx is done, it cancels the derived context.
InitWatcher ==
    /\ initCtx /\ ~initCtxDone
    /\ pc \in {"resolve", "inits", "failing"}
    /\ rootCancelled
    /\ initCtxDone' = TRUE
    /\ UNCHANGED <<cfgVars, optCtxDone, retrieved, newVars, sdVars, runVars,
                   rootCancelled, log>>

\* ------------------------------------------------------------ Shutdown

\* Whether the context of the Run call is done once a.ctx is cancelled: at once
\* when it is a child of a.ctx (context.WithCancel(a.ctx)).
ChildDone(done) ==
    IF runPc \in {"recv", "drain"} /\ runOpts.parent = "root" THEN TRUE ELSE done

\* The Shutdowner the loop of Shutdown calls at position i, mutated to go up
\* a.shutdowners instead of down.
ShutdownerForward(i) == shutdowners[Len(shutdowners) - i + 1]

\* The Shutdowner the loop of Shutdown calls at position i: a.shutdowners[i].
ShutdownerAt(i) == shutdowners[i]

\* Shutdown is called on the app New returned: its loop is to start.
ShutdownStart ==
    /\ pc = "ready" /\ ~sd.on
    /\ shutdownCalls < MaxShutdownCalls
    /\ shutdownCalls' = shutdownCalls + 1
    /\ sd' = [on |-> TRUE, i |-> lastShutdowner(shutdowners), busy |-> FALSE]
    /\ log' = Append(log, <<"Shutdown">>)
    /\ UNCHANGED <<cfgVars, ictxVars, retrieved, runVars, newVars, rootCancelled>>

\* The caller calls Shutdown while no Run call is in flight, as it is asked to.
ShutdownCall ==
    /\ runPc \notin {"recv", "drain"}
    /\ ShutdownStart

\* Shutdown is called, from another goroutine, while a Run call is in flight.
ShutdownDuringRun ==
    /\ runPc \in {"recv", "drain"}
    /\ ShutdownStart

\* The loop of Shutdown calls a.shutdowners[i].Shutdown.
ShutdownerCalled ==
    /\ sd.on /\ ~sd.busy /\ sd.i >= 1
    /\ sd' = [sd EXCEPT !.busy = TRUE]
    /\ log' = Append(log, <<"shutdowner", ShutdownerAt(sd.i)>>)
    /\ UNCHANGED <<cfgVars, ictxVars, retrieved, runVars, newVars, shutdownCalls, rootCancelled>>

\* a.shutdowners[i].Shutdown returns, the loop goes down.
ShutdownerReturns ==
    /\ sd.on /\ sd.busy
    /\ sd' = [sd EXCEPT !.busy = FALSE, !.i = @ - 1]
    /\ log' = Append(log, <<"shutdowner returned", ShutdownerAt(sd.i)>>)
    /\ UNCHANGED <<cfgVars, ictxVars, retrieved, runVars, newVars, shutdownCalls, rootCancelled>>

\* Shutdown without its deferred a.cancel(): the mutation of cancelRoot.
cancelRootForgotten(done) == done

\* Shutdown returning before its defer when it has no Shutdowner to call: another
\* mutation of cancelRoot.
cancelRootUnlessIdle(done) == done \/ shutdowners # <<>>

\* a.ctx once a.cancel() has been called: done.
cancelRoot(done) == TRUE

\* Shutdown returns: the deferred a.cancel has run. When New called it, New
\* returns its error after the deferred resetCtxComponent.
ShutdownReturns ==
    /\ sd.on /\ ~sd.busy /\ sd.i = 0
    /\ sd' = [sd EXCEPT !.on = FALSE]
    /\ rootCancelled' = cancelRoot(rootCancelled)
    /\ runCtxDone' = ChildDone(runCtxDone)
    /\ log' = Append(log, <<"Shutdown returned">>)
    /\ IF pc = "failing"
       THEN /\ pc' = "failed"
            /\ components' = resetCtxComponent(components)
            /\ initCtxDone' = cancelCtxComponent(initCtxDone)
       ELSE UNCHANGED <<pc, components, initCtxDone>>
    /\ UNCHANGED <<cfgVars, optCtxDone, retrieved, merged, inits, runners, shutdowners, visited,
                   cycle, stack, initIdx, err, calls, shutdownCalls, runCalls, runPc,
                   runOpts, altDone, task, runErrors, closed, firstErr,
                   subsequentErrors, runResult, reported, handled>>

\* ----------------------------------------------------------------- Run

runFrame == <<cfgVars, ictxVars, newVars, sdVars, log, runCalls, runOpts, altDone, handled,
              retrieved>>

\* The caller calls Run, with or without WithRunContext and WithErrHandler: Run
\* derives its context and starts one goroutine per runner, which calls its Run.
RunCall ==
    /\ pc = "ready" /\ runPc \in {"idle", "returned"}
    /\ ~sd.on
    /\ runCalls < MaxRunCalls
    /\ runCalls' = runCalls + 1
    /\ \E parent \in {"root", "alt"}, handler \in BOOLEAN :
         runOpts' = [parent |-> parent, handler |-> handler]
    /\ altDone' = FALSE
    /\ runCtxDone' = IF runOpts'.parent = "root" THEN rootCancelled ELSE altDone'
    /\ task' = [i \in 1..Len(runners) |->
                    [runner |-> runners[i], state |-> "running", err |-> Nil]]
    /\ runErrors' = <<>>
    /\ closed' = FALSE
    /\ firstErr' = Nil
    /\ subsequentErrors' = <<>>
    /\ runResult' = Nil
    /\ reported' = <<>>
    /\ handled' = <<>>
    /\ runPc' = "recv"
    /\ UNCHANGED <<cfgVars, ictxVars, retrieved, newVars, sdVars, log, rootCancelled>>

InFlight == runPc \in {"recv", "drain"}

\* The caller cancels the context it gave with WithRunContext.
CancelAlt ==
    /\ InFlight /\ runOpts.parent = "alt" /\ ~altDone
    /\ altDone' = TRUE
    /\ runCtxDone' = TRUE
    /\ UNCHANGED <<cfgVars, ictxVars, retrieved, newVars, sdVars, log, rootCancelled, runCalls, runPc,
                   runOpts, task, runErrors, closed, firstErr, subsequentErrors,
                   runResult, reported, handled>>

\* The goroutine of Run, mutated to wait for the context given with
\* WithRunContext instead of a.ctx.
RunWatcherUnlinked ==
    /\ InFlight /\ runOpts.parent = "alt"
    /\ altDone /\ ~runCtxDone
    /\ runCtxDone' = TRUE
    /\ UNCHANGED <<cfgVars, ictxVars, retrieved, newVars, sdVars, log, rootCancelled, runCalls,
                   runPc, runOpts, altDone, task, runErrors, closed, firstErr,
                   subsequentErrors, runResult, reported, handled>>

\* The goroutine Run starts under WithRunContext: a.ctx is done, it cancels ctx.
RunWatcher ==
    /\ InFlight /\ runOpts.parent = "alt"
    /\ rootCancelled /\ ~runCtxDone
    /\ runCtxDone' = TRUE
    /\ UNCHANGED <<cfgVars, ictxVars, retrieved, newVars, sdVars, log, rootCancelled, runCalls, runPc,
                   runOpts, altDone, task, runErrors, closed, firstErr,
                   subsequentErrors, runResult, reported, handled>>

\* The goroutine of a runner, mutated to cancel ctx when the runner returns.
cancelWhenRunnerReturns(done) == TRUE

\* ctx after a runner has returned nil: the goroutine only calls finished.Done,
\* which leaves ctx as it is.
afterRunnerReturns(done) == done

\* runner.Run(ctx) returns nil: the goroutine is done (finished.Done).
TaskReturnsNil(i) ==
    /\ task[i].state = "running"
    /\ \/ behaviour[task[i].runner[1]] = "ok"
       \/ behaviour[task[i].runner[1]] = "wait" /\ runCtxDone
    /\ task' = [task EXCEPT ![i].state = "done"]
    /\ runCtxDone' = afterRunnerReturns(runCtxDone)
    /\ UNCHANGED <<runFrame, rootCancelled, runPc, runErrors, closed,
                   firstErr, subsequentErrors, runResult, reported>>

\* runner.Run(ctx) returns an error, which the goroutine is to send.
TaskReturnsErr(i) ==
    /\ task[i].state = "running"
    /\ \/ behaviour[task[i].runner[1]] = "fail"
       \/ behaviour[task[i].runner[1]] = "waitfail" /\ runCtxDone
    /\ task' = [task EXCEPT ![i].state = "reporting",
                            ![i].err = RunError(task[i].runner)]
    /\ UNCHANGED <<runFrame, rootCancelled, runPc, runCtxDone, runErrors, closed,
                   firstErr, subsequentErrors, runResult, reported>>

\* make(chan error, 1): the mutation of capacity.
capacityOne(list) == 1

\* The capacity of runErrors: make(chan error, len(a.runners)).
capacity(list) == Len(list)

\* runErrors <- err, which has room for one error per runner; the goroutine is
\* done.
TaskReports(i) ==
    /\ task[i].state = "reporting"
    /\ Len(runErrors) < capacity(runners)
    /\ runErrors' = Append(runErrors, task[i].err)
    /\ reported' = Append(reported, task[i].err)
    /\ task' = [task EXCEPT ![i].state = "done"]
    /\ UNCHANGED <<runFrame, rootCancelled, runPc, runCtxDone, closed, firstErr,
                   subsequentErrors, runResult>>

\* finished.Wait returns in the goroutine that closes runErrors.
Closer ==
    /\ InFlight /\ ~closed
    /\ \A i \in 1..Len(task) : task[i].state = "done"
    /\ closed' = TRUE
    /\ UNCHANGED <<runFrame, rootCancelled, runPc, runCtxDone, task, runErrors,
                   firstErr, subsequentErrors, runResult, reported>>

\* Run forgets to cancel ctx after the first error: the mutation of
\* CancelOnError.
NoCancelOnError(done) == done

\* ctx after Run has received the first error: cancel() has been called.
CancelOnError(done) == TRUE

\* a.ctx after Run has received the first error, mutated to be cancelled as
\* ctx is.
rootCancelledToo(done) == TRUE

\* a.ctx after Run has received the first error: cancel() is the cancel func of
\* ctx, which leaves a.ctx, its parent, as it is.
rootAfterCancel(done) == done

\* err, ok := <-runErrors yields an error: Run cancels ctx.
RunRecvFirst ==
    /\ runPc = "recv" /\ runErrors # <<>>
    /\ firstErr' = Head(runErrors)
    /\ runErrors' = Tail(runErrors)
    /\ runCtxDone' = CancelOnError(runCtxDone)
    /\ rootCancelled' = rootAfterCancel(rootCancelled)
    /\ runPc' = "drain"
    /\ UNCHANGED <<runFrame, task, closed, subsequentErrors, runResult, reported>>

\* A receive that does not wait for the channel to be closed: the mutation of
\* ChannelOver.
ChannelEmpty == runErrors = <<>>

\* A receive from runErrors finds it closed and empty.
ChannelOver == runErrors = <<>> /\ closed

\* err, ok := <-runErrors finds the channel closed: Run returns nil, and its
\* deferred cancel runs.
RunReturnsNil ==
    /\ runPc = "recv" /\ ChannelOver
    /\ runResult' = Nil
    /\ runCtxDone' = TRUE
    /\ runPc' = "returned"
    /\ UNCHANGED <<runFrame, rootCancelled, task, runErrors, closed, firstErr,
                   subsequentErrors, reported>>

\* subsequentErrors = append(subsequentErrors, err), mutated to put err in front.
prependError(errs, e) == <<e>> \o errs

\* subsequentErrors = append(subsequentErrors, err)
appendError(errs, e) == Append(errs, e)

\* for err := range runErrors receives an error.
RunDrain ==
    /\ runPc = "drain" /\ runErrors # <<>>
    /\ subsequentErrors' = appendError(subsequentErrors, Head(runErrors))
    /\ runErrors' = Tail(runErrors)
    /\ UNCHANGED <<runFrame, rootCancelled, runPc, runCtxDone, task, closed,
                   firstErr, runResult, reported>>

\* The error Run returns, mutated to leave out the first error.
AggregateRest(first, rest) == Join(rest)

\* errors.Join(append([]error{err}, subsequentErrors...)...)
Aggregate(first, rest) == Join(<<first>> \o rest)

\* for err := range runErrors ends: Run returns the joined errors.
RunReturnsErr ==
    /\ runPc = "drain" /\ ChannelOver
    /\ runResult' = Aggregate(firstErr, subsequentErrors)
    /\ runCtxDone' = TRUE
    /\ runPc' = "returned"
    /\ UNCHANGED <<runFrame, rootCancelled, task, runErrors, closed, firstErr,
                   subsequentErrors, reported>>

\* ------------------------------------------------------------- signals

\* SIGINT (or a registered signal) arrives: signal.NotifyContext cancels a.ctx.
Signal ==
    /\ pc # "start" /\ ~rootCancelled
    /\ rootCancelled' = TRUE
    /\ runCtxDone' = ChildDone(runCtxDone)
    /\ UNCHANGED <<cfgVars, ictxVars, retrieved, newVars, sdVars, log, runCalls, runPc, runOpts, altDone,
                   task, runErrors, closed, firstErr, subsequentErrors, runResult,
                   reported, handled>>

\* ------------------------------------------------------------------ Spec

NextNew ==
    \/ NewCollect
    \/ IterResolved
    \/ IterEnter
    \/ InsMissing
    \/ InsCycle
    \/ InsResolved
    \/ InsEnter
    \/ ConstructPanics
    \/ ConstructFails
    \/ ConstructReturns
    \/ ResolveDone
    \/ InitMissing
    \/ InitFails
    \/ InitReturns
    \/ NewReturns

NextShutdown ==
    \/ ShutdownCall
    \/ ShutdownerCalled
    \/ ShutdownerReturns
    \/ ShutdownReturns

Next == NextNew \/ NextShutdown \/ Signal

Spec == Init /\ [][Next]_vars

\* A step of the goroutine that called New, the Shutdown call of its deferred
\* func included, but for the return of a Shutdown method that call waits for.
NewSteps ==
    \/ NextNew
    \/ pc = "failing" /\ (ShutdownerCalled \/ ShutdownReturns)

\* A step of a New call: one of its goroutine, or the return of a Shutdown method
\* the Shutdown call of its deferred func waits for.
NextNewCall ==
    \/ NewSteps
    \/ pc = "failing" /\ ShutdownerReturns

\* A New call with initializers that return or panic: the goroutine that called
\* New takes its next step in the end. Whether the Shutdown method of a
\* Shutdowner returns is up to that method.
SpecFair == Init /\ [][NextNewCall]_vars /\ WF_vars(NewSteps)

NextRun ==
    \/ RunCall
    \/ CancelAlt
    \/ RunWatcher
    \/ \E i \in 1..Len(task) : TaskReturnsNil(i)
    \/ \E i \in 1..Len(task) : TaskReturnsErr(i)
    \/ \E i \in 1..Len(task) : TaskReports(i)
    \/ Closer
    \/ RunRecvFirst
    \/ RunReturnsNil
    \/ RunDrain
    \/ RunReturnsErr

\* New on the declarations of InitRun, none of which fails or is an init.
NextNewRunners ==
    \/ NewCollect
    \/ IterResolved
    \/ IterEnter
    \/ InsMissing
    \/ InsResolved
    \/ InsEnter
    \/ ConstructReturns
    \/ ResolveDone
    \/ NewReturns

NextAll == NextNewRunners \/ NextShutdown \/ Signal \/ NextRun

SpecRun == InitRun /\ [][NextAll]_vars

\* A step of a goroutine of Run: of the one that called Run, of the one of a
\* runner, or of the one that closes runErrors.
RunSteps ==
    \/ \E i \in 1..Len(task) : TaskReturnsNil(i)
    \/ \E i \in 1..Len(task) : TaskReturnsErr(i)
    \/ \E i \in 1..Len(task) : TaskReports(i)
    \/ Closer
    \/ RunRecvFirst
    \/ RunReturnsNil
    \/ RunDrain
    \/ RunReturnsErr

\* Run with a scheduler that does not stop: while some goroutine of Run can take
\* a step, one of them does in the end.
SpecRunFair == InitRun /\ [][NextAll]_vars /\ WF_vars(RunSteps)

\* Run with Shutdown calls that may come while it is in flight; the goroutine
\* that passes the cancellation of a.ctx on is scheduled in the end.
NextLinked == NextAll \/ ShutdownDuringRun

SpecRunLinked == InitRunLinked /\ [][NextLinked]_vars /\ WF_vars(RunWatcher)

\* New on the declarations of InitFailing, which have no cycle and no init.
NextNewFailing ==
    \/ NewCollect
    \/ IterResolved
    \/ IterEnter
    \/ InsMissing
    \/ InsResolved
    \/ InsEnter
    \/ ConstructFails
    \/ ConstructReturns
    \/ ResolveDone
    \/ NewReturns

NextFailing == NextNewFailing \/ NextShutdown \/ Signal

SpecFailing == InitFailing /\ [][NextFailing]_vars

\* ------------------------------------------------------------ Retrieve

\* The kinds the caller asks Retrieve for.
LookupKinds == Kinds \cup {CtxKind}

\* Retrieve, mutated to return true without value.Set(component.value).
lookupForgetsValue(comps, kind) ==
    [kind |-> kind, found |-> kind \in DOMAIN comps, value |-> Invalid]

\* What Retrieve returns and leaves in the variable ptr points to, of type kind:
\* value is Invalid when the variable is left alone.
lookup(comps, kind) ==
    IF kind \in DOMAIN comps
    THEN [kind |-> kind, found |-> TRUE, value |-> comps[kind].value]
    ELSE [kind |-> kind, found |-> FALSE, value |-> Invalid]

\* The caller calls Retrieve on the app New returned.
Retrieve(kind) ==
    /\ pc = "ready"
    /\ retrieved' = lookup(components, kind)
    /\ UNCHANGED <<cfgVars, ictxVars, newVars, sdVars, runVars, rootCancelled, log>>

\* New on the declarations of InitLookup, none of which fails.
NextNewLookup ==
    \/ NewCollect
    \/ IterResolved
    \/ IterEnter
    \/ InsMissing
    \/ InsResolved
    \/ InsEnter
    \/ ConstructPanics
    \/ ConstructReturns
    \/ ResolveDone
    \/ InitReturns
    \/ NewReturns

NextLookup ==
    \/ NextNewLookup
    \/ CancelInitContext
    \/ InitWatcher
    \/ NextShutdown
    \/ Signal
    \/ \E kind \in LookupKinds : Retrieve(kind)

SpecLookup == InitLookup /\ [][NextLookup]_vars

\* ------------------------------------------------- the declared graph

\* The declarations New is given: the initializers, then the pre-built components.
Decls == mergeComponentsInitializers(prebuilt, initializers)

\* The elements of a sequence.
Range(q) == {q[j] : j \in 1..Len(q)}

\* The declarations that produce kind k, as (declaration, output position) pairs.
Producers(k) ==
    LET decls == Decls IN
    {d \in (1..Len(decls)) \X (1..2) : d[2] <= Len(decls[d[1]].outs)
                                         /\ decls[d[1]].outs[d[2]] = k}

\* The kinds the declarations declare as dependencies of the producers of k.
DependsOn(k) ==
    LET decls == Decls IN
    UNION {Range(Dependencies(decls[d[1]])) : d \in Producers(k)}

\* The kinds k depends on through chains of at most n declarations.
RECURSIVE Reach(_, _)
Reach(k, n) ==
    IF n = 0
    THEN {}
    ELSE DependsOn(k) \cup UNION {Reach(d, n - 1) : d \in DependsOn(k)}

\* The kinds k depends on, directly or transitively.
Needs(k) == Reach(k, Cardinality(Kinds) + 1)

NoDuplicateKind ==
    /\ Producers(CtxKind) = {}
    /\ \A k \in Kinds : Cardinality(Producers(k)) <= 1

NoMissingDependency ==
    LET decls == Decls IN
    \A j \in 1..Len(decls) :
        \A d \in Range(Dependencies(decls[j])) : d = CtxKind \/ Producers(d) # {}

NoCycle == \A k \in Kinds : k \notin Needs(k)

NoFailure == LET decls == Decls IN \A j \in 1..Len(decls) : decls[j].ret # "err"

WellFormed == NoFailure /\ NoDuplicateKind /\ NoMissingDependency /\ NoCycle

\* ------------------------------------------------------ reading the log

\* The components the calls of a log returned, in the order they were stored.
RECURSIVE Built(_)
Built(l) ==
    IF l = <<>>
    THEN <<>>
    ELSE LET e == Head(l) IN
         (IF e[1] = "call" /\ merged[e[2]].ret # "err"
          THEN [j \in 1..Len(merged[e[2]].outs) |-> <<merged[e[2]].outs[j], e[2]>>]
          ELSE <<>>) \o Built(Tail(l))

\* The Shutdowners among them.
BuiltShutdowners == SelectSeq(Built(log), LAMBDA v : IsShutdowner(v))

Reverse(q) == [j \in 1..Len(q) |-> q[Len(q) + 1 - j]]

\* The positions of the log at which a Shutdown call begins.
ShutdownStarts == {p \in 1..Len(log) : log[p][1] = "Shutdown"}

\* The position at which the Shutdown call begun at p returns, or past the log.
ShutdownEnd(p) ==
    LET ends == {q \in p..Len(log) : log[q][1] = "Shutdown returned"}
    IN  IF ends = {} THEN Len(log) + 1 ELSE CHOOSE q \in ends : \A r \in ends : q <= r

\* What the Shutdown call begun at p has done to the Shutdowners so far.
Segment(p) == SubSeq(log, p + 1, ShutdownEnd(p) - 1)

\* One call and one return per Shutdowner, last built first.
RECURSIVE OneByOne(_)
OneByOne(q) ==
    IF q = <<>>
    THEN <<>>
    ELSE <<(<<"shutdowner", Head(q)>>), (<<"shutdowner returned", Head(q)>>)>>
            \o OneByOne(Tail(q))

IsPrefix(a, b) == Len(a) <= Len(b) /\ a = SubSeq(b, 1, Len(a))

\* ----------------------------------------------------------- claims

\* C1: for declarations with no duplicate product kind, no missing dependency, no
\* dependency cycle and no failing constructor or action, New never fails, never
\* panics, never stops before it returns, calls no initializer twice, and has
\* called every constructor and every action exactly once when it returns,
\* whatever the order in which a.components is ranged over.
C1_AssemblySucceeds ==
    WellFormed =>
        /\ pc \notin {"failing", "failed", "panicked"}
        /\ err = Nil
        /\ \A j \in DOMAIN calls : calls[j] <= 1
        /\ pc \in {"start", "resolve", "inits"} => ENABLED NextNew
        /\ pc = "ready" =>
              /\ Len(calls) = Len(Decls)
              /\ \A j \in 1..Len(Decls) : calls[j] = 1

\* C2: a constructor is called with one value per declared dependency, in the
\* declared order, each being the context or the value of that kind returned by a
\* constructor call that came earlier; so the constructor of every dependency has
\* returned before the constructor that depends on it is called.
C2_DependenciesFirst ==
    \A n \in 1..Len(log) :
        (log[n][1] = "call" /\ merged[log[n][2]].outs # <<>>) =>
            LET deps == Dependencies(merged[log[n][2]])
                args == log[n][3]
            IN  /\ Len(args) = Len(deps)
                /\ \A j \in 1..Len(deps) :
                      \/ deps[j] = CtxKind /\ args[j] = RootCtx
                      \/ /\ args[j][1] = deps[j]
                         /\ \E m \in 1..(n - 1) : args[j] \in Range(Built(<<log[m]>>))

C2_Witness ==
    \E n \in 1..Len(log) :
        /\ log[n][1] = "call"
        /\ merged[log[n][2]].outs # <<>>
        /\ Len(log[n][3]) = 2
        /\ log[n][3][1][1] = "B"
        /\ log[n][3][2][1] = "C"

\* C3: every Shutdown call calls the Shutdown of every collected Shutdowner exactly
\* once, the next one only after the previous one has returned, in the reverse of
\* the order in which the components were built.
C3_ShutdownReverseOneByOne ==
    \A p \in ShutdownStarts :
        /\ IsPrefix(Segment(p), OneByOne(Reverse(BuiltShutdowners)))
        /\ ShutdownEnd(p) <= Len(log) =>
              Segment(p) = OneByOne(Reverse(BuiltShutdowners))

C3_Witness ==
    /\ pc = "ready"
    /\ shutdownCalls = 1
    /\ ~sd.on
    /\ Len(BuiltShutdowners) = 2
    /\ log[Len(log)][1] = "Shutdown returned"

\* C4: when the constructor of a Shutdowner x depends, directly or transitively, on
\* the kind of a Shutdowner y, a Shutdown call calls x's Shutdown before y's.
C4_DependentsShutDownFirst ==
    \A p \in ShutdownStarts :
        \A q \in (p + 1)..(ShutdownEnd(p) - 1) :
            log[q][1] = "shutdowner" =>
                \A x \in Range(BuiltShutdowners) :
                    log[q][2][1] \in Needs(x[1]) =>
                        \E r \in (p + 1)..(q - 1) : log[r] = <<"shutdowner", x>>

C4_Witness ==
    /\ pc = "ready"
    /\ ~sd.on /\ shutdownCalls = 1
    /\ \E x, y \in Range(BuiltShutdowners) :
         /\ y[1] \in Needs(x[1])
         /\ y[1] \notin DependsOn(x[1])
         /\ \E q, r \in 1..Len(log) :
              /\ r < q
              /\ log[r][1] = "shutdowner" /\ log[r][2] = x
              /\ log[q][1] = "shutdowner" /\ log[q][2] = y

\* C5: when New fails, the Shutdown of every Shutdowner built so far has been called
\* and has returned, last built first, by the time New returns the error.
C5_FailedAssemblyShutsDown ==
    pc = "failed" =>
        /\ err # Nil
        /\ Cardinality(ShutdownStarts) = 1
        /\ \A p \in ShutdownStarts :
              /\ ShutdownEnd(p) = Len(log)
              /\ Segment(p) = OneByOne(Reverse(BuiltShutdowners))

C5_Witness ==
    /\ pc = "failed"
    /\ Len(BuiltShutdowners) = 2
    /\ inits # <<>>
    /\ err = ErrorOf(inits[1].init)

\* The positions of the runners whose Run method behaves as b.
Behaving(b) == {i \in 1..Len(runners) : behaviour[runners[i][1]] = b}

\* One runner fails of its own accord; the others wait for ctx, then return nil.
OneFailsOthersWait ==
    /\ pc = "ready"
    /\ Len(runners) >= 2
    /\ Cardinality(Behaving("fail")) = 1
    /\ Cardinality(Behaving("wait")) = Len(runners) - 1

\* The tasks whose runner has returned an error.
Failed == {i \in 1..Len(task) : task[i].err # Nil}

\* C6: with a runner R1 that fails with E1 and runners that block until ctx is done
\* and then return nil, ctx is not done and the others are blocked until Run receives
\* E1 (unless a.ctx or the context given to Run is cancelled); ctx is done once Run
\* has received E1; and when Run returns every goroutine has returned and the error
\* returned has E1 as its first (here only) error.
C6_FirstErrorCancels ==
    (OneFailsOthersWait /\ runPc # "idle") =>
        LET r1 == CHOOSE i \in 1..Len(runners) : i \in Behaving("fail") IN
        /\ (runPc = "recv" /\ ~rootCancelled /\ ~altDone) =>
              /\ ~runCtxDone
              /\ \A i \in Behaving("wait") : task[i].state = "running"
        /\ runPc \in {"drain", "returned"} =>
              /\ runCtxDone
              /\ firstErr = RunError(runners[r1])
        /\ \A i \in Behaving("wait") : task[i].state = "done" => runCtxDone
        /\ runPc = "returned" =>
              /\ \A i \in 1..Len(task) : task[i].state = "done"
              /\ runResult # Nil
              /\ runResult[2][1] = RunError(runners[r1])

C6_Witness ==
    /\ OneFailsOthersWait
    /\ runPc = "returned"
    /\ ~rootCancelled /\ ~altDone
    /\ runResult # Nil

\* C7: Run starts one goroutine per collected runner, each calling that runner's Run,
\* and returns only when every one of them has returned, whether any failed or not.
C7_RunWaitsForAll ==
    runPc # "idle" =>
        /\ Len(task) = Len(runners)
        /\ \A i \in 1..Len(task) : task[i].runner = runners[i]
        /\ runPc = "returned" => \A i \in 1..Len(task) : task[i].state = "done"

C7_Witness ==
    /\ runPc = "returned"
    /\ Len(task) = 3
    /\ Failed # {}
    /\ \E i \in 1..Len(task) : task[i].err = Nil

\* C8: Run returns nil if and only if no runner returned an error; with no runner it
\* is never blocked and returns nil.
C8_NilIffNoFailure ==
    /\ runPc = "returned" => (runResult = Nil <=> Failed = {})
    /\ (runPc \in {"recv", "drain"} /\ runners = <<>>) =>
          /\ runPc = "recv"
          /\ ENABLED (Closer \/ RunReturnsNil)

C8_Witness ==
    /\ runPc = "returned"
    /\ runners = <<>>
    /\ runResult = Nil

\* C9: when some runners fail, the error Run returns joins exactly their errors,
\* each once, in the order in which their goroutines reported them: the first
\* reported is the first of the list.
C9_AllErrorsInCompletionOrder ==
    (runPc = "returned" /\ Failed # {}) =>
        /\ runResult = <<"join", reported>>
        /\ Len(reported) = Cardinality(Failed)
        /\ Range(reported) = {task[i].err : i \in Failed}

C9_Witness ==
    /\ runPc = "returned"
    /\ Len(reported) = 3
    /\ reported[1] = RunError(runners[3])
    /\ reported[2] = RunError(runners[1])
    /\ runResult = <<"join", reported>>

\* C10: when a handler is given with WithErrHandler, every error after the first has
\* been passed to it exactly once, in the order reported, by the time Run returns.
C10_HandlerGetsSubsequentErrors ==
    (runPc = "returned" /\ runOpts.handler) =>
        handled = SubSeq(reported, 2, Len(reported))

\* C11: when two declarations (constructors or pre-built components, in any order)
\* produce the same kind, New fails with the error "duplicating component" naming a
\* kind produced twice, and it has called no initializer.
C11_DuplicateKindFails ==
    (pc # "start" /\ ~NoDuplicateKind) =>
        /\ pc \in {"failing", "failed"}
        /\ err[1] = "duplicating component"
        /\ Cardinality(Producers(err[2])) >= 2
        /\ \A j \in DOMAIN calls : calls[j] = 0

C11_Witness ==
    /\ pc = "failed"
    /\ err[1] = "duplicating component"
    /\ \E j \in 1..Len(prebuilt) :
         /\ prebuilt[j] = err[2]
         /\ \E i \in 1..Len(initializers) : err[2] \in Range(initializers[i].outs)

\* C12: for declarations whose only defect is a dependency cycle among the
\* constructors, New never gets past initializeComponents and never panics: it
\* fails with the error "dependency cycle detected" whichever component the range
\* starts with, it is never stuck on the way, and the recursion is never deeper
\* than the number of components.
C12_CycleDetected ==
    (NoFailure /\ NoDuplicateKind /\ NoMissingDependency /\ ~NoCycle) =>
        /\ pc \notin {"inits", "ready", "panicked"}
        /\ pc \in {"failing", "failed"} => err = <<"dependency cycle detected">>
        /\ pc \in {"start", "resolve"} => ENABLED NextNew
        /\ Len(stack) <= Cardinality(DOMAIN components)

\* C13, as amended: when an initializer has a dependency (a parameter but a
\* variadic one) of a kind that no declaration produces, New never returns an
\* app, and it is never stuck; an error it returns is "missing dependency",
\* naming a kind without a producer, when the declarations have no other defect
\* (no kind produced twice, no dependency cycle, no failing initializer).
C13_MissingDependencyFails ==
    ~NoMissingDependency =>
        /\ pc # "ready"
        /\ pc \in {"start", "resolve", "inits"} => ENABLED NextNew
        /\ (NoDuplicateKind /\ NoCycle /\ NoFailure /\ pc \in {"failing", "failed"}) =>
              /\ err[1] = "missing dependency"
              /\ err[2] # CtxKind
              /\ Producers(err[2]) = {}

\* An action lacks its dependency: New fails after it has called a constructor.
C13_Witness ==
    /\ ~NoMissingDependency /\ NoDuplicateKind /\ NoCycle /\ NoFailure
    /\ pc = "failed"
    /\ err[1] = "missing dependency"
    /\ \E j \in DOMAIN calls : calls[j] = 1
    /\ \E i \in 1..Len(inits) : err[2] \in Range(inits[i].dependencies)

\* C13, as stated: whenever an initializer depends on a kind that no declaration
\* produces, the error New returns is "missing dependency".
C13_AlwaysMissingDependency ==
    (~NoMissingDependency /\ pc \in {"failed", "ready"}) =>
        (pc = "failed" /\ err[1] = "missing dependency")

\* C14: once a constructor has returned a non-nil error, New fails with that very
\* error and calls no other initializer, constructor or action.
C14_ConstructorFailureAborts ==
    \A n \in 1..Len(log) :
        (/\ log[n][1] = "call"
         /\ merged[log[n][2]].outs # <<>>
         /\ merged[log[n][2]].ret = "err") =>
            /\ pc \in {"failing", "failed"}
            /\ err = ErrorOf(log[n][2])
            /\ \A m \in (n + 1)..Len(log) : log[m][1] # "call"
            /\ calls[log[n][2]] = 1

\* A constructor fails after another has returned, with an action still to call.
C14_Witness ==
    /\ pc = "failed"
    /\ \E n \in 2..Len(log) :
         /\ log[n][1] = "call"
         /\ merged[log[n][2]].outs # <<>>
         /\ err = ErrorOf(log[n][2])
         /\ log[n - 1][1] = "call"
    /\ inits # <<>>
    /\ \A i \in 1..Len(inits) : calls[inits[i].init] = 0

\* The declarations that are constructors: they yield at least one component.
Constructors == {j \in 1..Len(Decls) : NumComponents(Decls[j]) > 0}

\* The positions of the log at which an action (an init) is called.
ActionCalls ==
    {n \in 1..Len(log) : log[n][1] = "call" /\ log[n][2] \notin Constructors}

\* C15: New calls an action only after every constructor, wherever declared, has
\* been called and has returned without an error, and it calls the actions in the
\* order in which they were declared.
C15_ConstructorsBeforeActions ==
    /\ \A n \in ActionCalls :
          \A j \in Constructors :
              /\ Decls[j].ret # "err"
              /\ \E m \in 1..(n - 1) : log[m][1] = "call" /\ log[m][2] = j
    /\ \A n, m \in ActionCalls : n < m => log[n][2] < log[m][2]

\* Two actions, the first declared before a constructor, have been called.
C15_Witness ==
    /\ pc = "ready"
    /\ Cardinality(ActionCalls) = 2
    /\ 1 \notin Constructors
    /\ 2 \in Constructors

\* A Shutdown call has returned.
ShutdownReturned == \E p \in 1..Len(log) : log[p][1] = "Shutdown returned"

\* C16: a Shutdown call cancels a.ctx only in the step in which it returns, after
\* the last Shutdowner has returned; a.ctx is done once a Shutdown call has returned
\* and stays done whatever is called later; and the context Retrieve yields on the
\* app is a.ctx, so every check of it then reports done.
C16_ShutdownCancelsRootLast ==
    /\ [][(~rootCancelled /\ rootCancelled' /\ sd' # sd) =>
              (sd.on /\ sd.i = 0 /\ ~sd.busy /\ ~sd'.on)]_vars
    /\ [](ShutdownReturned => rootCancelled)
    /\ [][rootCancelled => rootCancelled']_vars
    /\ []((ShutdownReturned /\ pc = "ready") =>
              components[CtxKind].value = RootCtx)
    /\ []((ShutdownReturned /\ retrieved.kind = CtxKind) =>
              (retrieved.found /\ retrieved.value = RootCtx))

\* Two Shutdowners have been shut down by a first Shutdown call, a second call has
\* been made, and the context has been retrieved.
C16_Witness ==
    /\ pc = "ready"
    /\ shutdownCalls = 2 /\ ~sd.on
    /\ Len(shutdowners) = 2
    /\ retrieved.kind = CtxKind
    /\ rootCancelled

\* C17: once a.ctx is done (a signal, or a Shutdown call that returns) while a Run
\* call is in flight, the context Run passes to the runners is done: in the same
\* step when it was derived from a.ctx, and in the end when it was derived from the
\* context given with WithRunContext.
C17_RootCancelsRunContext ==
    /\ []((InFlight /\ rootCancelled /\ runOpts.parent = "root") => runCtxDone)
    /\ (InFlight /\ rootCancelled) ~> runCtxDone

\* A Shutdown call made while Run was in flight under WithRunContext has cancelled
\* a.ctx, and the runners, which waited for ctx, have returned.
C17_Witness ==
    /\ runPc = "returned"
    /\ runOpts.parent = "alt" /\ ~altDone
    /\ runResult = Nil
    /\ Len(task) = 2
    /\ ShutdownReturned
    /\ \E p \in 1..Len(log) : log[p][1] = "shutdowner"

\* C18: a.ctx becomes done only in a step of a signal or of Shutdown, never in a
\* step of Run, of its goroutines or of the caller cancelling the context given
\* with WithRunContext; so Run leaves a.ctx as it found it, also when it cancels
\* ctx after a runner has failed.
C18_RunLeavesRootAlone ==
    [][(~rootCancelled /\ rootCancelled') =>
          UNCHANGED <<runCalls, runPc, runOpts, altDone, task, runErrors, closed,
                      firstErr, subsequentErrors, runResult, reported>>]_vars

\* Run has returned the error of a runner and has cancelled ctx; a.ctx is not done.
C18_Witness ==
    /\ runPc = "returned"
    /\ runResult # Nil
    /\ runCtxDone
    /\ ~rootCancelled
    /\ shutdownCalls = 0

\* The declaration that produces kind k, when there is exactly one.
ProducerOf(k) == (CHOOSE d \in Producers(k) : TRUE)[1]

\* C19: on the app New returned, Retrieve of a kind that a declaration produces
\* returns true with the value that declaration's constructor returned when New
\* called it; Retrieve of a kind no declaration produces returns false and leaves
\* the variable alone; and a Retrieve call calls no initializer and changes neither
\* the components nor the runners nor the shutdowners.
C19_RetrieveFindsDeclared ==
    /\ [](retrieved.kind \in Kinds =>
            /\ retrieved.found <=> Producers(retrieved.kind) # {}
            /\ retrieved.found =>
                  /\ Cardinality(Producers(retrieved.kind)) = 1
                  /\ retrieved.value =
                        ValueOf(retrieved.kind, ProducerOf(retrieved.kind))
                  /\ \E n \in 1..Len(log) :
                        /\ log[n][1] = "call"
                        /\ log[n][2] = ProducerOf(retrieved.kind)
            /\ ~retrieved.found => retrieved.value = Invalid)
    /\ [][retrieved' # retrieved =>
            UNCHANGED <<components, runners, shutdowners, calls, log, pc,
                        rootCancelled>>]_vars

\* Retrieve has found the C that func(A) C returned.
C19_Witness ==
    /\ retrieved.kind = "C"
    /\ retrieved.found
    /\ Decls[ProducerOf("C")].ins = <<"A">>
    /\ retrieved.value = ValueOf("C", ProducerOf("C"))

\* The context New injects: derived from the one given with WithInitContext, or
\* a.ctx without it.
AmbientCtx == IF initCtx THEN InitCtx ELSE RootCtx

\* The positions of the log at which an initializer is called with the context.
CtxCalls ==
    {n \in 1..Len(log) :
        log[n][1] = "call" /\ CtxKind \in Range(Dependencies(merged[log[n][2]]))}

\* C20: the context is a component from the start, so no initializer lacks it;
\* every constructor and action that declares it is called with a.ctx when New
\* was not given WithInitContext and with the context derived from the given one
\* when it was; and on the app New returned the context component, and so what
\* Retrieve yields for it, is a.ctx.
C20_AmbientContext ==
    /\ pc # "start" => CtxKind \in DOMAIN components
    /\ err # missingDependency(CtxKind)
    /\ \A n \in CtxCalls :
          \A j \in 1..Len(log[n][3]) :
              Dependencies(merged[log[n][2]])[j] = CtxKind =>
                  log[n][3][j] = AmbientCtx
    /\ pc \in {"resolve", "inits"} => components[CtxKind].value = AmbientCtx
    /\ pc = "ready" => components[CtxKind].value = RootCtx
    /\ retrieved.kind = CtxKind =>
          (retrieved.found /\ retrieved.value = RootCtx)

\* Under WithInitContext a constructor and an action have been called with the
\* derived context, and Retrieve has yielded a.ctx.
C20_Witness ==
    /\ initCtx
    /\ pc = "ready"
    /\ \E n, m \in CtxCalls :
         /\ log[n][2] \in Constructors /\ log[n][3][1] = InitCtx
         /\ log[m][2] \notin Constructors /\ log[m][3][1] = InitCtx
    /\ retrieved.kind = CtxKind
    /\ retrieved.value = RootCtx

\* The parameters of an initializer before its variadic one.
FixedParams(f) == IF f.variadic THEN SubSeq(f.ins, 1, Len(f.ins) - 1) ELSE f.ins

\* The declarations with a variadic parameter.
VariadicDecls == {j \in 1..Len(Decls) : Decls[j].variadic}

\* The kind of the variadic parameter of an initializer that has one.
VariadicKind(f) == f.ins[Len(f.ins)]

\* Some declaration has a variadic parameter of a kind that no declaration
\* produces, none has a parameter other than the context before a variadic one,
\* none fails, and no kind is produced twice.
OnlyVariadicParams ==
    /\ \E j \in VariadicDecls : Producers(VariadicKind(Decls[j])) = {}
    /\ \A j \in 1..Len(Decls) : Range(FixedParams(Decls[j])) \subseteq {CtxKind}
    /\ NoDuplicateKind
    /\ NoFailure

\* C21: a variadic parameter is no dependency. The components of an initializer
\* with one record only the parameters before it; the initializer is called with
\* a value for each of those and none for the variadic one; ins never enters
\* initializeComponent for a kind that is not among those parameters, and New
\* reports as missing only a kind some initializer has among them; so
\* declarations with a variadic parameter of a kind without a producer, and no
\* other parameter besides the context, never make New fail or panic.
C21_VariadicIsNoDependency ==
    /\ \A k \in DOMAIN components :
          components[k].constructor \in VariadicDecls =>
              components[k].dependencies =
                  FixedParams(Decls[components[k].constructor])
    /\ \A n \in 1..Len(log) :
          (log[n][1] = "call" /\ log[n][2] \in VariadicDecls) =>
              Len(log[n][3]) = Len(Decls[log[n][2]].ins) - 1
    /\ \A p \in 2..Len(stack) :
          stack[p].component \in
              Range(FixedParams(Decls[components[stack[p - 1].component].constructor]))
    /\ err[1] = "missing dependency" =>
          \E j \in 1..Len(Decls) : err[2] \in Range(FixedParams(Decls[j]))
    /\ OnlyVariadicParams =>
          /\ pc \notin {"failing", "failed", "panicked"}
          /\ pc \in {"start", "resolve", "inits"} => ENABLED NextNew

\* C22: the check for a kind produced twice comes before any construction: when
\* two declarations produce the same kind, and so whenever New fails with
\* "duplicating component", no initializer has been or is ever called, no
\* component holds a value but the context, and nothing has been collected as a
\* runner or as a shutdowner.
C22_DuplicateCheckIsEager ==
    (~NoDuplicateKind \/ err[1] = "duplicating component") =>
        /\ \A n \in 1..Len(log) : log[n][1] \notin {"call", "shutdowner"}
        /\ \A j \in DOMAIN calls : calls[j] = 0
        /\ \A k \in DOMAIN components \ {CtxKind} : ~IsValid(components[k].value)
        /\ runners = <<>>
        /\ shutdowners = <<>>
        /\ stack = <<>>

\* The third declaration produces the kind of the second, after a constructor of
\* a runner and shutdowner that has no dependency: New has failed with nothing
\* but the calling and the return of Shutdown in the log.
C22_Witness ==
    /\ pc = "failed"
    /\ err[1] = "duplicating component"
    /\ Len(Decls) = 3
    /\ Decls[1].ins = <<>> /\ Decls[1].outs = <<"A">>
    /\ err[2] # "A"
    /\ log = <<(<<"Shutdown">>), (<<"Shutdown returned">>)>>

\* The positions of the log at which an action is called and returns an error.
FailedActionCalls == {n \in ActionCalls : merged[log[n][2]].ret = "err"}

\* C23: once an action has returned a non-nil error, New fails with that very
\* error and calls no other initializer; and when New returns it, the Shutdown of
\* every Shutdowner built, that is of every one collected, has been called and has
\* returned, after the action did.
C23_ActionFailureAborts ==
    \A n \in FailedActionCalls :
        /\ pc \in {"failing", "failed"}
        /\ err = ErrorOf(log[n][2])
        /\ \A m \in (n + 1)..Len(log) : log[m][1] # "call"
        /\ \A i \in 1..Len(inits) : inits[i].init > log[n][2] => calls[inits[i].init] = 0
        /\ Range(shutdowners) = Range(BuiltShutdowners)
        /\ pc = "failed" =>
              \A x \in Range(shutdowners) :
                  \E q, r \in (n + 1)..Len(log) :
                      /\ q < r
                      /\ log[q] = <<"shutdowner", x>>
                      /\ log[r] = <<"shutdowner returned", x>>

\* An action has failed with a Shutdowner built and another action still to call.
C23_Witness ==
    /\ pc = "failed"
    /\ shutdowners # <<>>
    /\ \E n \in FailedActionCalls :
         /\ err = ErrorOf(log[n][2])
         /\ \E i \in 1..Len(inits) : inits[i].init > log[n][2]

\* The dependencies of declaration j that no declaration produces.
Unproduced(j) ==
    {d \in Range(Dependencies(Decls[j])) : d # CtxKind /\ Producers(d) = {}}

\* The actions with a dependency that no declaration produces.
MissingActions == {j \in 1..Len(Decls) : j \notin Constructors /\ Unproduced(j) # {}}

\* Nothing makes New fail before invokeInits comes to action i: no kind is
\* produced twice, the constructors have no cycle, no missing dependency and no
\* failure, and no action declared before i fails or lacks a dependency.
NothingFailsBefore(i) ==
    /\ NoDuplicateKind
    /\ NoCycle
    /\ \A j \in Constructors : Decls[j].ret # "err" /\ Unproduced(j) = {}
    /\ \A j \in 1..(i - 1) :
          j \notin Constructors => (Decls[j].ret # "err" /\ Unproduced(j) = {})

\* The first dependency of declaration j that no declaration produces.
FirstUnproduced(j) ==
    LET deps == Dependencies(Decls[j])
    IN  deps[Min({p \in 1..Len(deps) : deps[p] \in Unproduced(j)})]

\* C24, as amended: no constructor is called once an action has been, and an
\* action is called with the values the components hold. When an action has a
\* dependency that no declaration produces, New never returns an app, and neither
\* that action nor an action declared after it is ever called; an error New
\* returns is "missing dependency", naming that dependency, when nothing makes it
\* fail before it comes to that action.
C24_ActionMissingDependency ==
    /\ \A n \in ActionCalls :
          /\ \A m \in (n + 1)..Len(log) :
                log[m][1] = "call" => log[m][2] \notin Constructors
          /\ \A j \in 1..Len(log[n][3]) :
                log[n][3][j] = components[Dependencies(Decls[log[n][2]])[j]].value
                    \/ Dependencies(Decls[log[n][2]])[j] = CtxKind
    /\ MissingActions # {} =>
          LET i == Min(MissingActions) IN
          /\ pc # "ready"
          /\ \A j \in DOMAIN calls : (j >= i /\ j \notin Constructors) => calls[j] = 0
          /\ NothingFailsBefore(i) =>
                /\ pc \in {"start", "resolve", "inits"} => ENABLED NextNew
                /\ pc \in {"failing", "failed"} =>
                      err = <<"missing dependency", FirstUnproduced(i)>>

\* New has failed at the second action, which lacks its dependency, after it has
\* called a constructor and the first action.
C24_Witness ==
    /\ pc = "failed"
    /\ MissingActions # {}
    /\ NothingFailsBefore(Min(MissingActions))
    /\ err = <<"missing dependency", FirstUnproduced(Min(MissingActions))>>
    /\ Cardinality(ActionCalls) = 1
    /\ \E j \in Constructors : calls[j] = 1

\* C24, as stated: when an action has a dependency that no declaration produces
\* and New fails after every constructor has been called and has returned without
\* an error, the error is "missing dependency".
C24_ActionAlwaysMissingDependency ==
    (/\ MissingActions # {}
     /\ pc = "failed"
     /\ \A j \in Constructors : calls[j] = 1 /\ Decls[j].ret # "err") =>
        err[1] = "missing dependency"

\* C25: New fails with "dependency cycle detected" only when some kind depends on
\* itself through the declared dependencies; the cycle map holds exactly the
\* components whose initialization is in progress, so a kind reached through two
\* chains, listed twice by one initializer or initialized by an earlier iteration
\* of the range is not taken for a cycle.
C25_NoFalseCycle ==
    /\ err = <<"dependency cycle detected">> => ~NoCycle
    /\ pc = "resolve" => cycle = {stack[p].component : p \in 1..Len(stack)}
    /\ (pc = "resolve" /\ stack # <<>> /\ NoCycle
            /\ Top.i <= Len(components[Top.component].dependencies)) =>
          ~OnPath(NextDependency)

\* New has returned the app for declarations in which A depends on B twice or on
\* B and C, B depends on C, and C is built by the time A asks for it.
C25_Witness ==
    /\ pc = "ready"
    /\ "B" \in DependsOn("A")
    /\ "C" \in DependsOn("B")
    /\ \E n \in 1..Len(log) :
         /\ log[n][1] = "call"
         /\ Len(log[n][3]) = 2
         /\ log[n][3][1][1] = "B"
         /\ log[n][3][2][1] \in {"B", "C"}

\* The constructors that yield several components.
MultiConstructors == {j \in DOMAIN calls : Len(merged[j].outs) >= 2}

\* The positions of the log at which declaration j is called.
CallsOf(j) == {n \in 1..Len(log) : log[n][1] = "call" /\ log[n][2] = j}

\* C26: a constructor that yields several components is called at most once; once
\* it has returned without an error every one of its components holds the value
\* that call returned, and whoever asks for one of them afterwards, a constructor
\* or an action, is given that value.
C26_MultiProductOnce ==
    \A j \in MultiConstructors :
        /\ calls[j] <= 1
        /\ Cardinality(CallsOf(j)) = calls[j]
        /\ (calls[j] = 1 /\ merged[j].ret # "err") =>
              /\ \A o \in 1..Len(merged[j].outs) :
                    components[merged[j].outs[o]].value = ValueOf(merged[j].outs[o], j)
              /\ \A n \in 1..Len(log) :
                    log[n][1] = "call" =>
                        \A a \in 1..Len(log[n][3]) :
                            log[n][3][a][1] \in Range(merged[j].outs) =>
                                /\ log[n][3][a][2] = j
                                /\ \A m \in CallsOf(j) : m < n

\* New has returned the app after func() (B, C) was called once and func(B, C) A
\* was given both of its components, with an action declared as well.
C26_Witness ==
    /\ pc = "ready"
    /\ inits # <<>>
    /\ \E j \in MultiConstructors :
         /\ calls[j] = 1
         /\ \E n \in 1..Len(log) :
              /\ log[n][1] = "call"
              /\ log[n][3] = <<ValueOf("B", j), ValueOf("C", j)>>

\* The positions of the log at which a Shutdown call that has returned began.
ShutdownsDone == {p \in ShutdownStarts : ShutdownEnd(p) <= Len(log)}

\* C27: every Shutdown call on the app, the first or a later one, calls the
\* Shutdown of every Shutdowner, last built first, so all the calls do the same;
\* a.ctx, done since the first call returned, stays done, and a later call leaves
\* the components, the runners and the Shutdowners as they were.
C27_SecondShutdownRepeats ==
    /\ [](\A p, q \in ShutdownsDone :
              /\ Segment(p) = OneByOne(Reverse(shutdowners))
              /\ Segment(p) = Segment(q))
    /\ []((pc = "ready" /\ ~sd.on) => Cardinality(ShutdownsDone) = shutdownCalls)
    /\ []((pc = "ready" /\ ShutdownsDone # {}) => rootCancelled)
    /\ [][(pc = "ready" /\ ShutdownsDone # {}) =>
              /\ rootCancelled'
              /\ components' = components
              /\ runners' = runners
              /\ shutdowners' = shutdowners]_vars

\* Two Shutdown calls have returned on an app with two Shutdowners, the second
\* one made when a.ctx was done already.
C27_Witness ==
    /\ pc = "ready"
    /\ shutdownCalls >= 2 /\ ~sd.on
    /\ Cardinality(ShutdownsDone) >= 2
    /\ Len(shutdowners) = 2
    /\ rootCancelled
    /\ log[Len(log)][1] = "Shutdown returned"

\* C28: New returns an error only after the Shutdown call of its deferred func has
\* returned, whatever the error and whether or not anything was built: that call
\* is never stuck, it is the only one in the log, and a.ctx is done when New
\* returns.
C28_FailureShutsDownAndCancels ==
    /\ [](pc = "failed" =>
              /\ err # Nil
              /\ rootCancelled
              /\ Cardinality(ShutdownStarts) = 1
              /\ log[Len(log)] = <<"Shutdown returned">>)
    /\ [](pc = "failing" =>
              /\ sd.on
              /\ ENABLED (ShutdownerCalled \/ ShutdownerReturns \/ ShutdownReturns))
    /\ [][pc' = "failed" => (pc = "failing" /\ ~sd'.on /\ rootCancelled')]_vars

\* New has failed on a missing dependency before any initializer was called, with
\* no Shutdowner to call: Shutdown has been called and has returned all the same.
C28_Witness ==
    /\ pc = "failed"
    /\ err[1] = "missing dependency"
    /\ \A j \in DOMAIN calls : calls[j] = 0
    /\ shutdowners = <<>>
    /\ rootCancelled
    /\ log = <<(<<"Shutdown">>), (<<"Shutdown returned">>)>>

\* C29: with runners that return at once, fail at once, or wait for ctx and then
\* return nil or an error, a goroutine that has an error to send always has room
\* in runErrors, however many errors are there already; and once a runner has
\* failed during a Run call, that call returns in the end.
C29_RunReturnsAfterFailure ==
    /\ [](\A i \in 1..Len(task) :
              task[i].state = "reporting" =>
                  /\ Len(runErrors) < Len(task)
                  /\ ENABLED TaskReports(i))
    /\ (InFlight /\ Failed # {}) ~> (runPc = "returned")

\* Run has returned the errors of three runners, one of which failed only after
\* ctx was cancelled.
C29_Witness ==
    /\ runPc = "returned"
    /\ Len(runners) = 3
    /\ Len(reported) = 3
    /\ \E k \in RunnerKinds : behaviour[k] = "waitfail"
    /\ \E k \in RunnerKinds : behaviour[k] = "fail"
    /\ \A i \in 1..Len(task) : task[i].state = "done"

\* The tasks whose runner has not returned yet.
Running == {i \in 1..Len(task) : task[i].state = "running"}

\* C30: as long as a runner of a Run call has not returned and none has returned
\* an error, Run has not returned and ctx is not done, unless a.ctx or the context
\* given with WithRunContext is; and the return of a runner with nil leaves ctx as
\* it was.
C30_NoCancelWithoutFailure ==
    /\ []((Running # {} /\ Failed = {} /\ ~rootCancelled /\ ~altDone) =>
              (InFlight /\ ~runCtxDone))
    /\ [][(\E i \in Running : task'[i].state = "done") => runCtxDone' = runCtxDone]_vars

\* A runner has returned nil, another one is still waiting for ctx, which is not
\* done.
C30_Witness ==
    /\ InFlight
    /\ Failed = {}
    /\ ~rootCancelled /\ ~altDone /\ ~runCtxDone
    /\ \E i, j \in 1..Len(task) :
         /\ task[i].state = "done"
         /\ task[j].state = "running"
         /\ behaviour[task[j].runner[1]] = "wait"

\* The positions of the log at which a constructor is called and returns an error.
FailedConstructorCalls ==
    {n \in 1..Len(log) : /\ log[n][1] = "call"
                         /\ merged[log[n][2]].outs # <<>>
                         /\ merged[log[n][2]].ret = "err"}

\* The values a constructor number j returns beside its error.
ValuesOf(j) == {ValueOf(merged[j].outs[o], j) : o \in 1..Len(merged[j].outs)}

\* C31: no value returned by a constructor together with a non-nil error is the
\* value of a component, a runner or a Shutdowner of the app, and the Shutdown call
\* New makes before it returns the error calls the Shutdown of none of them.
C31_FailedValuesDiscarded ==
    \A n \in FailedConstructorCalls :
        LET values == ValuesOf(log[n][2]) IN
        /\ pc \in {"failing", "failed"}
        /\ \A k \in DOMAIN components : components[k].value \notin values
        /\ Range(runners) \cap values = {}
        /\ Range(shutdowners) \cap values = {}
        /\ \A m \in 1..Len(log) :
              log[m][1] \in {"shutdowner", "shutdowner returned"} =>
                  log[m][2] \notin values

\* func() (B, C, error) has failed after a Shutdowner A was built: New has returned
\* the error, the Shutdown of A has been called, B and C have no value.
C31_Witness ==
    /\ pc = "failed"
    /\ \E n \in FailedConstructorCalls :
         /\ Len(merged[log[n][2]].outs) = 2
         /\ err = ErrorOf(log[n][2])
    /\ Len(shutdowners) = 1
    /\ \E m \in 1..Len(log) : log[m][1] = "shutdowner returned"
    /\ components["B"].value = Invalid
    /\ components["C"].value = Invalid

\* C32: with WithInitContext, while the Shutdown call of a failed New runs the
\* context component is still the derived context, which is done only if a.ctx or
\* the given context is; when New has returned, with the app or with an error, the
\* derived context is done; and the return of the app leaves a.ctx as it was.
C32_InitContextCancelledOnReturn ==
    /\ []((initCtx /\ pc = "failing") =>
              /\ components[CtxKind].value = InitCtx
              /\ (~rootCancelled /\ ~optCtxDone) => ~initCtxDone)
    /\ []((initCtx /\ pc \in {"ready", "failed"}) => initCtxDone)
    /\ [][(pc = "inits" /\ pc' = "ready") =>
              (rootCancelled' = rootCancelled /\ optCtxDone' = optCtxDone)]_vars

\* New, given a context that nobody has cancelled, has failed after it built
\* a Shutdowner: its Shutdown has been called and the derived context is done.
C32_Witness ==
    /\ initCtx /\ ~optCtxDone
    /\ pc = "failed"
    /\ initCtxDone
    /\ \E m \in 1..Len(log) : log[m][1] = "shutdowner returned"

\* Whether New returns an error from the first iteration of the range when that
\* iteration is for component k: its constructor has no dependency and fails, or
\* its first dependency has no producer or is k itself.
ErrorAtOnce(k) ==
    LET deps == components[k].dependencies IN
    IF deps = <<>>
    THEN merged[components[k].constructor].ret = "err"
    ELSE deps[1] \notin DOMAIN components \/ deps[1] = k

\* C33: whether New returns the app or an error is decided by the declarations
\* alone, whatever the order in which the range of initializeComponents yields
\* the components: it returns the app only for declarations with no duplicate
\* kind, no missing dependency, no cycle and no failing initializer, an error
\* only for declarations with one of these defects, and when one order of the
\* range makes it return an error from the first iteration, no other order makes
\* it end without returning one.
C33_OutcomeIndependentOfOrder ==
    /\ pc = "ready" => WellFormed
    /\ pc \in {"failing", "failed"} => ~WellFormed
    /\ pc = "panicked" =>
          \A k \in DOMAIN components \ {CtxKind} : ~ErrorAtOnce(k)

\* The kinds of the components under initialization, outermost first.
Path == [p \in 1..Len(stack) |-> stack[p].component]

\* Every initializeComponent call in progress is for another component, none of
\* them the context, so the recursion is never deeper than the number of kinds
\* the declarations produce.
PathBounded ==
    /\ \A p, q \in 1..Len(stack) : p # q => Path[p] # Path[q]
    /\ CtxKind \notin Range(Path)
    /\ Len(stack) <= Cardinality(DOMAIN components \ {CtxKind})
    /\ Len(stack) <= Cardinality({k \in Kinds : Producers(k) # {}})

\* New has returned, the app or an error.
NewReturned == pc \in {"ready", "failed"}

\* Some call of a constructor has not returned: it has panicked.
ConstructorPanicked == pc = "panicked"

\* The Shutdown call of a failed New is in a Shutdown method that never returns.
ShutdownNeverReturns == <>[](pc = "failing" /\ sd.busy)

\* C34, as amended: the recursion is never deeper than the number of kinds the
\* declarations produce; and New returns in the end unless a call of a
\* constructor does not return or a Shutdown method that the Shutdown call of a
\* failed New calls does not.
C34_ResolutionTerminates ==
    /\ []PathBounded
    /\ \/ ShutdownNeverReturns
       \/ <>(ConstructorPanicked \/ NewReturned)

\* New has returned "dependency cycle detected" after the Shutdown method of a
\* Shutdowner built before the cycle was met has been called and has returned.
C34_Witness ==
    /\ pc = "failed"
    /\ err = <<"dependency cycle detected">>
    /\ Len(Decls) = 3
    /\ \E m \in 1..Len(log) : log[m][1] = "shutdowner returned"

\* C34, as stated: the recursion is bounded, and New returns in the end unless a
\* call of a constructor does not return, whatever the Shutdown methods of the
\* components do.
C34_ReturnsWhateverShutdownDoes ==
    /\ []PathBounded
    /\ <>(ConstructorPanicked \/ NewReturned)

\* C35: at every moment the cycle map holds exactly the kinds of the components
\* whose initializeComponent call is in progress, whether the calls before
\* returned nil or an error, and it is empty when none is in progress.
C35_PathIsCallChain ==
    /\ cycle = Range(Path)
    /\ stack = <<>> => cycle = {}

====
